---- MODULE Spec2Model ----
(***************************************************************************)
(* Model of the job dashboard backend (src/app.py): the spreadsheet        *)
(* reload (load_jobs_from_excel), the per-row derivation                   *)
(* (process_job_data, parse_datetime, determine_status,                    *)
(* calculate_duration) and the read handlers (get_jobs, get_metrics,       *)
(* get_alerts, export_jobs, refresh_data) over the module-level globals    *)
(* jobs_data and last_updated.                                             *)
(*                                                                         *)
(* Python's None and pandas' NaN are the empty tuple; a present value v    *)
(* is the one-element tuple <<v>>.  Text cells are tuples of characters so *)
(* that strip(), lower() and the substring test are computed; timestamp    *)
(* cells are whole strings looked up in a sample table, and a parsed       *)
(* timestamp is a number of seconds since 2024-03-20 00:00:00.             *)
(***************************************************************************)
EXTENDS Integers, Sequences, FiniteSets, TLC

VARIABLES
    source,        \* the spreadsheet at EXCEL_FILE_PATH
    jobs_data,     \* global jobs_data
    last_updated,  \* global last_updated
    clock,         \* datetime.now()
    loader,        \* per thread running load_jobs_from_excel: position and locals
    reader,        \* the thread serving a read request: position and locals
    events,        \* file-change events: queued for ExcelFileHandler, and made so far
    writer,        \* history: the load that last assigned jobs_data, the one that
                   \* last assigned last_updated, loads started, loads finished,
                   \* the spreadsheet as the most recent load to look found it
    row,           \* the row handed to the loop body of load_jobs_from_excel
    job,           \* the job the loop body built from it
    request,       \* arguments of the request being served
    response       \* what the handler returned

vars == <<source, jobs_data, last_updated, clock, loader, reader, events, writer,
          row, job, request, response>>

None == <<>>
Some(v) == <<v>>
Val(o) == o[1]

----------------------------------------------------------------------------
(* Bounds of the model *)

MaxRows == 3        \* rows of a sample sheet in the sequential specification
MaxTicks == 1       \* clock ticks during a concurrent run
MaxChanges == 1     \* modifications of the spreadsheet during a concurrent run
MaxLoads == 3       \* loads started during a concurrent run
MaxPage == 2        \* pages requested range over -MaxPage .. MaxPage
MaxPageSize == 2    \* page sizes requested range over 1 .. MaxPageSize

----------------------------------------------------------------------------
(* Text: str.strip(), str.lower(), the `in` operator *)

IsSpace(c) == c = " "

RECURSIVE lstrip(_)
lstrip(s) == IF s # <<>> /\ IsSpace(Head(s)) THEN lstrip(Tail(s)) ELSE s

RECURSIVE rstrip(_)
rstrip(s) ==
    IF s # <<>> /\ IsSpace(s[Len(s)]) THEN rstrip(SubSeq(s, 1, Len(s) - 1)) ELSE s

strip(s) == rstrip(lstrip(s))

lowerChar(c) ==
    CASE c = "A" -> "a"
      [] c = "B" -> "b"
      [] OTHER -> c

lower(s) == [i \in 1..Len(s) |-> lowerChar(s[i])]

contains(needle, hay) ==
    \E i \in 0..(Len(hay) - Len(needle)) :
        \A k \in 1..Len(needle) : hay[i + k] = needle[k]

----------------------------------------------------------------------------
(* Timestamp cells.  FormatOf names the first thing that accepts the       *)
(* string: one of the five strptime formats, pandas' general parser, or    *)
(* nothing; SecondsOf is the instant the string denotes.                   *)

Formats == << "%Y-%m-%dT%H:%M:%S", "%Y-%m-%d %H:%M:%S", "%Y-%m-%d",
              "%m/%d/%Y %H:%M:%S", "%m/%d/%Y" >>

TimeStrings == { "2024-03-20T00:00:00", "2024-03-20 00:59:00",
                 "2024-03-20T00:59:59", "03/20/2024 01:00:00",
                 "2024-03-20 02:00:00", "2024-03-20T02:00:01",
                 "March 20, 2024 02:05:00", "2024-03-20",
                 "03/20/2024", "20 Mar 2024 03:00:01", "not-a-date" }

FormatOf(s) ==
    CASE s \in {"2024-03-20T00:00:00", "2024-03-20T00:59:59",
                "2024-03-20T02:00:01"} -> "%Y-%m-%dT%H:%M:%S"
      [] s \in {"2024-03-20 00:59:00", "2024-03-20 02:00:00"} -> "%Y-%m-%d %H:%M:%S"
      [] s = "2024-03-20" -> "%Y-%m-%d"
      [] s = "03/20/2024 01:00:00" -> "%m/%d/%Y %H:%M:%S"
      [] s = "03/20/2024" -> "%m/%d/%Y"
      [] s \in {"March 20, 2024 02:05:00", "20 Mar 2024 03:00:01"} -> "to_datetime"
      [] OTHER -> "unparsable"

SecondsOf(s) ==
    CASE s = "2024-03-20T00:00:00" -> 0
      [] s = "2024-03-20" -> 0
      [] s = "03/20/2024" -> 0
      [] s = "2024-03-20 00:59:00" -> 3540
      [] s = "2024-03-20T00:59:59" -> 3599
      [] s = "03/20/2024 01:00:00" -> 3600
      [] s = "2024-03-20 02:00:00" -> 7200
      [] s = "2024-03-20T02:00:01" -> 7201
      [] s = "March 20, 2024 02:05:00" -> 7500
      [] s = "20 Mar 2024 03:00:01" -> 10801

\* datetime.strptime(s, fmt): the value, or None where it raises ValueError
strptime(s, fmt) == IF FormatOf(s) = fmt THEN Some(SecondsOf(s)) ELSE None

\* pd.to_datetime(s): the value, or None where it raises
to_datetime(s) == IF FormatOf(s) = "to_datetime" THEN Some(SecondsOf(s)) ELSE None

\* str.strip() on a timestamp cell: of the sample cells only the blank one is padded
stripTime(s) == IF s = " " THEN "" ELSE s

RECURSIVE tryFormats(_, _)
tryFormats(s, i) ==
    IF i > Len(Formats) THEN to_datetime(s)
    ELSE IF strptime(s, Formats[i]) # None THEN strptime(s, Formats[i])
    ELSE tryFormats(s, i + 1)

parse_datetime(datetime_str) ==
    IF datetime_str = "" \/ stripTime(datetime_str) = "" THEN None
    ELSE tryFormats(stripTime(datetime_str), 1)

----------------------------------------------------------------------------
(* Derived fields *)

\* determine_status with the threshold compared by >= instead of >
determine_status_ge(start_time, end_time) ==
    IF start_time = None THEN "failed"
    ELSE IF end_time = None THEN "running"
    ELSE IF Val(end_time) - Val(start_time) >= 2 * 60 * 60 THEN "delayed"
    ELSE "completed"

determine_status(start_time, end_time) ==
    IF start_time = None THEN "failed"
    ELSE IF end_time = None THEN "running"
    ELSE IF Val(end_time) - Val(start_time) > 2 * 60 * 60 THEN "delayed"
    ELSE "completed"

\* calculate_duration with the minutes rounded to nearest instead of truncated
calculate_duration_round(start_time, end_time) ==
    IF start_time = None THEN None
    ELSE IF end_time = None THEN Some("Running")
    ELSE LET duration == Val(end_time) - Val(start_time)
             minutes == (duration + 30) \div 60
             hours == minutes \div 60
         IN  IF duration < 0 THEN Some("Invalid")
             ELSE IF hours > 0
                  THEN Some(ToString(hours) \o "h " \o ToString(minutes % 60) \o "m")
                  ELSE Some(ToString(minutes) \o "m")

calculate_duration(start_time, end_time) ==
    IF start_time = None THEN None
    ELSE IF end_time = None THEN Some("Running")
    ELSE LET duration == Val(end_time) - Val(start_time)
             minutes == duration \div 60
             hours == minutes \div 60
         IN  IF duration < 0 THEN Some("Invalid")
             ELSE IF hours > 0
                  THEN Some(ToString(hours) \o "h " \o ToString(minutes % 60) \o "m")
                  ELSE Some(ToString(minutes) \o "m")

process_job_data(j) ==
    LET start_time == parse_datetime(j.startTime)
        end_time == parse_datetime(j.endTime)
    IN  [j EXCEPT !.status = determine_status(start_time, end_time),
                  !.duration = calculate_duration(start_time, end_time),
                  !.startTimeParsed = start_time,
                  !.endTimeParsed = end_time]

notna(cell) == cell # None

HIGH == <<"h", "i", "g", "h">>
NORMAL == <<"n", "o", "r", "m", "a", "l">>
LOW == <<"l", "o", "w">>
ALL == <<"a", "l", "l">>

\* the body of the loop of load_jobs_from_excel: one row to one job
build_job(r, index, now) ==
    process_job_data(
        [id |-> <<r.jobName, index, now>>,
         jobName |-> IF notna(r.jobName) THEN strip(Val(r.jobName)) ELSE <<>>,
         startTime |-> IF notna(r.startTime) THEN stripTime(Val(r.startTime)) ELSE "",
         endTime |-> IF notna(r.endTime) THEN stripTime(Val(r.endTime)) ELSE "",
         dependency |-> IF notna(r.dependency) THEN strip(Val(r.dependency)) ELSE <<>>,
         description |-> IF notna(r.description) THEN strip(Val(r.description)) ELSE <<>>,
         priority |-> IF notna(r.priority) THEN strip(Val(r.priority)) ELSE NORMAL,
         status |-> "", duration |-> None,
         startTimeParsed |-> None, endTimeParsed |-> None])

build_jobs(df, now) == [i \in 1..Len(df) |-> build_job(df[i], i - 1, now)]

----------------------------------------------------------------------------
(* Request handlers as functions of what they read from the globals.  obs  *)
(* lists the values the name jobs_data had at the handler's successive     *)
(* reads of it, lu the value of last_updated at its read.                  *)

\* `if search:` on a query argument: given and not empty
truthyText(arg) == arg # None /\ Val(arg) # <<>>
truthyStr(arg) == arg # None /\ Val(arg) # ""

\* Python's lst[a:b]
sliceIndex(i, n) == IF i < 0 THEN (IF i + n < 0 THEN 0 ELSE i + n)
                    ELSE (IF i > n THEN n ELSE i)

slice(lst, a, b) ==
    LET lo == sliceIndex(a, Len(lst))
        hi == sliceIndex(b, Len(lst))
    IN  IF lo < hi THEN SubSeq(lst, lo + 1, hi) ELSE <<>>

search_matches(search_term, j) ==
    \/ contains(search_term, lower(j.jobName))
    \/ contains(search_term, lower(j.dependency))
    \/ (j.description # <<>> /\ contains(search_term, lower(j.description)))

\* the three filters shared by get_jobs and export_jobs
filter_jobs(args, jobs) ==
    LET bySearch(j) == search_matches(lower(Val(args.search)), j)
        byStatus(j) == j.status = Val(args.status)
        byPriority(j) == j.priority = Val(args.priority)
        f1 == IF truthyText(args.search) THEN SelectSeq(jobs, bySearch) ELSE jobs
        f2 == IF truthyStr(args.status) /\ Val(args.status) # "all"
              THEN SelectSeq(f1, byStatus) ELSE f1
        f3 == IF truthyText(args.priority) /\ Val(args.priority) # ALL
              THEN SelectSeq(f2, byPriority) ELSE f2
    IN  f3

isoformat(lu) == lu

\* get_jobs with the total counted after pagination instead of before
get_jobs_pagecount(args, obs, lu) ==
    LET filtered_jobs == filter_jobs(args, obs[1])
        start_idx == (args.page - 1) * args.page_size
        end_idx == start_idx + args.page_size
        paginated_jobs == slice(filtered_jobs, start_idx, end_idx)
    IN  [jobs |-> paginated_jobs,
         totalCount |-> Len(paginated_jobs),
         lastUpdated |-> isoformat(lu),
         dataSource |-> "excel"]

get_jobs(args, obs, lu) ==
    LET filtered_jobs == filter_jobs(args, obs[1])
        total_count == Len(filtered_jobs)
        start_idx == (args.page - 1) * args.page_size
        end_idx == start_idx + args.page_size
    IN  [jobs |-> slice(filtered_jobs, start_idx, end_idx),
         totalCount |-> total_count,
         lastUpdated |-> isoformat(lu),
         dataSource |-> "excel"]

countStatus(jobs, st) == Cardinality({i \in 1..Len(jobs) : jobs[i].status = st})
countPriority(jobs, p) == Cardinality({i \in 1..Len(jobs) : jobs[i].priority = p})

RECURSIVE sumSeconds(_)
sumSeconds(jobs) ==
    IF jobs = <<>> THEN 0
    ELSE Val(Head(jobs).endTimeParsed) - Val(Head(jobs).startTimeParsed)
         + sumSeconds(Tail(jobs))

\* rounding down instead of toward zero
truncdiv_floor(a, b) == a \div b

\* Python's int(): truncation toward zero of the quotient a / b, b > 0
truncdiv(a, b) == IF a >= 0 THEN a \div b ELSE -((-a) \div b)

get_metrics(obs, lu) ==
    LET isCompleted(j) == /\ j.status = "completed"
                          /\ j.startTimeParsed # None
                          /\ j.endTimeParsed # None
        completed_jobs == SelectSeq(obs[9], isCompleted)
        avg_duration == IF completed_jobs # <<>>
                        THEN truncdiv(sumSeconds(completed_jobs),
                                      Len(completed_jobs) * 60)
                        ELSE 0
    IN  [total |-> Len(obs[1]),
         completed |-> countStatus(obs[2], "completed"),
         running |-> countStatus(obs[3], "running"),
         failed |-> countStatus(obs[4], "failed"),
         delayed |-> countStatus(obs[5], "delayed"),
         avgRunTimeMinutes |-> avg_duration,
         priorityDistribution |->
             [high |-> countPriority(obs[6], HIGH),
              normal |-> countPriority(obs[7], NORMAL),
              low |-> countPriority(obs[8], LOW)],
         lastUpdated |-> isoformat(lu)]

names(jobs) == [i \in 1..Len(jobs) |-> jobs[i].jobName]

\* get_alerts with the failed alert appended before the delayed one
get_alerts_swapped(obs, now) ==
    LET isDelayed(j) == j.status = "delayed"
        isFailed(j) == j.status = "failed"
        isLong(j) == /\ j.status = "running"
                     /\ j.startTimeParsed # None
                     /\ now - Val(j.startTimeParsed) > 3 * 60 * 60
        delayed_jobs == SelectSeq(obs[1], isDelayed)
        failed_jobs == SelectSeq(obs[2], isFailed)
        long_running_jobs == SelectSeq(obs[3], isLong)
        a1 == IF delayed_jobs # <<>>
              THEN << [type |-> "warning", count |-> Len(delayed_jobs),
                       jobs |-> names(delayed_jobs), severity |-> "medium"] >>
              ELSE <<>>
        a2 == IF failed_jobs # <<>>
              THEN << [type |-> "error", count |-> Len(failed_jobs),
                       jobs |-> names(failed_jobs), severity |-> "high"] >>
              ELSE <<>>
        a3 == IF long_running_jobs # <<>>
              THEN << [type |-> "info", count |-> Len(long_running_jobs),
                       jobs |-> names(long_running_jobs), severity |-> "low"] >>
              ELSE <<>>
    IN  [alerts |-> a2 \o a1 \o a3, timestamp |-> now]

get_alerts(obs, now) ==
    LET isDelayed(j) == j.status = "delayed"
        isFailed(j) == j.status = "failed"
        isLong(j) == /\ j.status = "running"
                     /\ j.startTimeParsed # None
                     /\ now - Val(j.startTimeParsed) > 3 * 60 * 60
        delayed_jobs == SelectSeq(obs[1], isDelayed)
        failed_jobs == SelectSeq(obs[2], isFailed)
        long_running_jobs == SelectSeq(obs[3], isLong)
        a1 == IF delayed_jobs # <<>>
              THEN << [type |-> "warning", count |-> Len(delayed_jobs),
                       jobs |-> names(delayed_jobs), severity |-> "medium"] >>
              ELSE <<>>
        a2 == IF failed_jobs # <<>>
              THEN << [type |-> "error", count |-> Len(failed_jobs),
                       jobs |-> names(failed_jobs), severity |-> "high"] >>
              ELSE <<>>
        a3 == IF long_running_jobs # <<>>
              THEN << [type |-> "info", count |-> Len(long_running_jobs),
                       jobs |-> names(long_running_jobs), severity |-> "low"] >>
              ELSE <<>>
    IN  [alerts |-> a1 \o a2 \o a3, timestamp |-> now]

export_jobs(args, obs) ==
    LET filtered_jobs == filter_jobs(args, obs[1])
    IN  [csv |-> [i \in 1..Len(filtered_jobs) |->
                    [JobName |-> filtered_jobs[i].jobName,
                     StartTime |-> filtered_jobs[i].startTime,
                     EndTime |-> filtered_jobs[i].endTime,
                     Duration |-> filtered_jobs[i].duration,
                     Status |-> filtered_jobs[i].status,
                     Dependencies |-> filtered_jobs[i].dependency,
                     Priority |-> filtered_jobs[i].priority,
                     Description |-> filtered_jobs[i].description]]]

\* the response of refresh_data once its call of load_jobs_from_excel returned
refresh_data(obs, lu) ==
    [message |-> "Data refreshed successfully",
     count |-> Len(obs[1]),
     lastUpdated |-> isoformat(lu)]

----------------------------------------------------------------------------
(* The spreadsheet and load_jobs_from_excel *)

Missing == [kind |-> "missing", rows |-> <<>>]
Unreadable == [kind |-> "unreadable", rows |-> <<>>]
Sheet(rows) == [kind |-> "sheet", rows |-> rows]

\* os.path.exists(EXCEL_FILE_PATH)
exists(src) == src.kind # "missing"

\* pd.read_excel and the column accesses of the loop: the rows, or None
\* where an exception is raised inside the try block
read_excel(src) == IF src.kind = "sheet" THEN Some(src.rows) ELSE None

\* the exception handler missing: the exception leaves load_jobs_from_excel
except_target_none(line) == "raised"

\* where control goes when an exception is raised at a line of
\* load_jobs_from_excel: the try of line 58 covers the whole body
except_target(line) == "l86"

\* load_jobs_from_excel with a timestamp that fails to parse raising out of
\* the loop instead of becoming None
load_jobs_from_excel_abort(src, now) ==
    IF ~exists(src) THEN <<>>
    ELSE IF read_excel(src) = None THEN <<>>
    ELSE IF \E i \in 1..Len(src.rows) :
                \/ /\ notna(src.rows[i].startTime)
                   /\ FormatOf(Val(src.rows[i].startTime)) = "unparsable"
                \/ /\ notna(src.rows[i].endTime)
                   /\ FormatOf(Val(src.rows[i].endTime)) = "unparsable"
         THEN <<>>
    ELSE build_jobs(Val(read_excel(src)), now)

\* a complete, uninterrupted call of load_jobs_from_excel
load_jobs_from_excel(src, now) ==
    IF ~exists(src) THEN <<>>
    ELSE IF read_excel(src) = None THEN <<>>
    ELSE build_jobs(Val(read_excel(src)), now)

----------------------------------------------------------------------------
(* Sample inputs *)

Row(n, s, e, dep, desc, p) ==
    [jobName |-> n, startTime |-> s, endTime |-> e,
     dependency |-> dep, description |-> desc, priority |-> p]

T0 == "2024-03-20T00:00:00"

RowPool ==
    { Row(Some(<<"A", "b">>), Some(T0), Some("03/20/2024 01:00:00"),
          None, None, Some(HIGH)),
      Row(Some(<<" ", "b", " ">>), Some(T0), Some("2024-03-20T02:00:01"),
          Some(<<"a">>), Some(<<"B">>), None),
      Row(Some(<<"a">>), Some("not-a-date"), Some("2024-03-20 02:00:00"),
          None, Some(<<"b", "b">>), Some(LOW)),
      Row(Some(<<"b", "A">>), Some(T0), Some("not-a-date"),
          Some(<<"A", "b">>), None, Some(<<"l", "o", "w", " ">>)),
      Row(None, Some("2024-03-20T00:59:59"), Some("2024-03-20"),
          None, None, Some(HIGH)) }

SeqUpTo(S, n) == UNION { [1..k -> S] : k \in 0..n }

SeqSources == {Missing, Unreadable} \cup { Sheet(r) : r \in SeqUpTo(RowPool, MaxRows) }

SheetA == Sheet(<< Row(Some(<<"A">>), Some(T0), Some("2024-03-20T02:00:01"),
                       None, None, Some(HIGH)),
                   Row(Some(<<"b">>), Some("not-a-date"), None,
                       None, None, None) >>)
SheetB == Sheet(<< Row(Some(<<"a">>), Some(T0), Some("03/20/2024 01:00:00"),
                       None, None, Some(LOW)) >>)

Sources == {Missing, Unreadable, SheetA, SheetB}

Clock0 == 10800  \* 2024-03-20 03:00:00

NoArgs == [search |-> None, status |-> None, priority |-> None,
           page |-> 1, page_size |-> 50]

Searches == {None, Some(<<"B">>), Some(<<"a", "b">>)}
Statuses == {None, Some("all"), Some("failed")}
Priorities == {None, Some(ALL), Some(LOW)}

QueryArgs == [search : Searches, status : Statuses, priority : Priorities,
              page : (-MaxPage)..MaxPage, page_size : 1..MaxPageSize]

TimeCells == {None, Some(" ")} \cup { Some(t) : t \in TimeStrings }
PriorityCells == {None, Some(<<" ">>), Some(HIGH), Some(<<"l", "o", "w", " ">>)}

BuildRows == { Row(Some(<<"A">>), s, e, None, None, p) :
                 s \in TimeCells, e \in TimeCells, p \in PriorityCells }

----------------------------------------------------------------------------
(* Specification SpecBuild: the loop body of load_jobs_from_excel applied  *)
(* to one row.                                                             *)

Loaders == {"main", "watcher", "refresh"}

IdleLoader == [pc |-> "idle", id |-> 0, df |-> <<>>, jobs |-> <<>>]
IdleReader == [pc |-> "idle", kind |-> "", obs |-> <<>>, by |-> <<>>,
               luBy |-> 0, early |-> FALSE]
NoEvents == [queued |-> 0, made |-> 0]
NoWriter == [jobs |-> 0, updated |-> 0, started |-> 0, finished |-> {},
             read |-> [kind |-> "missing", rows |-> <<>>]]

Quiet == /\ loader = [t \in Loaders |-> IdleLoader]
         /\ reader = IdleReader
         /\ events = NoEvents
         /\ writer = NoWriter
         /\ request = None
         /\ response = None

InitBuild ==
    /\ row \in { Some(r) : r \in BuildRows }
    /\ job = None
    /\ source = Missing
    /\ jobs_data = <<>>
    /\ last_updated = None
    /\ clock = Clock0
    /\ Quiet

BuildRow ==
    /\ row # None
    /\ job = None
    /\ job' = Some(build_job(Val(row), 0, clock))
    /\ UNCHANGED <<source, jobs_data, last_updated, clock, loader, reader,
                   events, writer, row, request, response>>

NextBuild == BuildRow

SpecBuild == InitBuild /\ [][NextBuild]_vars

----------------------------------------------------------------------------
(* Specification SpecSeq: the initial load of line 183 followed by         *)
(* requests served one at a time, with no load running beside them.        *)

Reads(kind) ==
    CASE kind = "get_jobs" -> 1
      [] kind = "get_metrics" -> 9
      [] kind = "get_alerts" -> 3
      [] kind = "export_jobs" -> 1
      [] kind = "refresh_data" -> 1

\* the response of a handler from what it read
respond(kind, args, obs, lu, now) ==
    CASE kind = "get_jobs" -> get_jobs(args, obs, lu)
      [] kind = "get_metrics" -> get_metrics(obs, lu)
      [] kind = "get_alerts" -> get_alerts(obs, now)
      [] kind = "export_jobs" -> export_jobs(args, obs)
      [] kind = "refresh_data" -> refresh_data(obs, lu)

InitSeq ==
    /\ source \in SeqSources
    /\ clock \in {Clock0, Clock0 + 1}
    /\ jobs_data = <<>>
    /\ last_updated = None
    /\ row = None
    /\ job = None
    /\ Quiet

LoadSeq ==
    /\ last_updated = None
    /\ jobs_data' = load_jobs_from_excel(source, clock)
    /\ last_updated' = Some(clock)
    /\ UNCHANGED <<source, clock, loader, reader, events, writer, row, job,
                   request, response>>

Serve(kind, args) ==
    /\ last_updated # None
    /\ response = None
    /\ request' = Some([kind |-> kind, args |-> args])
    /\ response' = Some(respond(kind, args, [i \in 1..Reads(kind) |-> jobs_data],
                                last_updated, clock))
    /\ UNCHANGED <<source, jobs_data, last_updated, clock, loader, reader,
                   events, writer, row, job>>

ServeJobs == \E args \in QueryArgs : Serve("get_jobs", args)
ServeMetrics == Serve("get_metrics", NoArgs)
ServeAlerts == Serve("get_alerts", NoArgs)
ServeExport ==
    \E args \in QueryArgs :
        /\ args.page = 1 /\ args.page_size = 1
        /\ Serve("export_jobs", args)

NextSeq == LoadSeq \/ ServeJobs \/ ServeMetrics \/ ServeAlerts \/ ServeExport

SpecSeq == InitSeq /\ [][NextSeq]_vars

----------------------------------------------------------------------------
(* Specification Spec: the threads of the running server.  "main" runs the *)
(* initial load of line 183, "watcher" is the observer thread running      *)
(* ExcelFileHandler.on_modified, and one request thread serves requests,   *)
(* refresh_data among them (its load is the loader "refresh").  A step is  *)
(* one access to a global or to the file; what lies between two accesses   *)
(* is local and belongs to the step before it.                             *)

Init ==
    /\ source \in Sources
    /\ jobs_data = <<>>
    /\ last_updated = None
    /\ clock = Clock0
    /\ loader = [t \in Loaders |->
                    IF t = "main" THEN [IdleLoader EXCEPT !.pc = "l59", !.id = 1]
                    ELSE IdleLoader]
    /\ reader = IdleReader
    /\ events = NoEvents
    /\ writer = [NoWriter EXCEPT !.started = 1]
    /\ request = None
    /\ response = None
    /\ row = None
    /\ job = None

\* time passes
Tick ==
    /\ clock < Clock0 + MaxTicks
    /\ clock' = clock + 1
    /\ UNCHANGED <<source, jobs_data, last_updated, loader, reader, events,
                   writer, row, job, request, response>>

\* the spreadsheet is written, replaced or deleted; the observer queues an event
Modify ==
    /\ events.made < MaxChanges
    /\ source' \in Sources
    /\ events' = [queued |-> events.queued + 1, made |-> events.made + 1]
    /\ UNCHANGED <<jobs_data, last_updated, clock, loader, reader, writer,
                   row, job, request, response>>

\* ExcelFileHandler.on_modified: the observer thread takes an event and
\* calls load_jobs_from_excel
on_modified ==
    /\ loader["watcher"].pc = "idle"
    /\ events.queued > 0
    /\ writer.started < MaxLoads
    /\ events' = [events EXCEPT !.queued = @ - 1]
    /\ loader' = [loader EXCEPT !["watcher"] =
                     [IdleLoader EXCEPT !.pc = "l59", !.id = writer.started + 1]]
    /\ writer' = [writer EXCEPT !.started = @ + 1]
    /\ UNCHANGED <<source, jobs_data, last_updated, clock, reader, row, job,
                   request, response>>

\* line 59: os.path.exists
CheckExists(t) ==
    /\ loader[t].pc = "l59"
    /\ loader' = [loader EXCEPT ![t].pc = IF exists(source) THEN "l65" ELSE "l61"]
    /\ writer' = IF exists(source) THEN writer ELSE [writer EXCEPT !.read = source]
    /\ UNCHANGED <<source, jobs_data, last_updated, clock, reader, events,
                   row, job, request, response>>

\* lines 65-78: read the file and build the local list jobs
ReadAndBuild(t) ==
    /\ loader[t].pc = "l65"
    /\ loader' = [loader EXCEPT ![t] =
                     IF read_excel(source) = None
                     THEN [@ EXCEPT !.pc = except_target("l65")]
                     ELSE [@ EXCEPT !.pc = "l80",
                                    !.df = Val(read_excel(source)),
                                    !.jobs = build_jobs(Val(read_excel(source)), clock)]]
    /\ writer' = [writer EXCEPT !.read = source]
    /\ UNCHANGED <<source, jobs_data, last_updated, clock, reader, events,
                   row, job, request, response>>

\* lines 61 and 86: jobs_data = []
SetEmpty(t) ==
    /\ loader[t].pc \in {"l61", "l86"}
    /\ jobs_data' = <<>>
    /\ writer' = [writer EXCEPT !.jobs = loader[t].id]
    /\ loader' = [loader EXCEPT ![t].pc = IF @ = "l61" THEN "l62" ELSE "l87"]
    /\ UNCHANGED <<source, last_updated, clock, reader, events, row, job,
                   request, response>>

\* line 80: jobs_data = jobs
Publish(t) ==
    /\ loader[t].pc = "l80"
    /\ jobs_data' = loader[t].jobs
    /\ writer' = [writer EXCEPT !.jobs = loader[t].id]
    /\ loader' = [loader EXCEPT ![t].pc = "l81"]
    /\ UNCHANGED <<source, last_updated, clock, reader, events, row, job,
                   request, response>>

\* lines 62, 81 and 87: last_updated = datetime.now(), and the return.
\* refresh_data then goes on to read the globals for its response.
Stamp(t) ==
    /\ loader[t].pc \in {"l62", "l81", "l87"}
    /\ last_updated' = Some(clock)
    /\ writer' = [writer EXCEPT !.updated = loader[t].id,
                                !.finished = @ \cup {loader[t].id}]
    /\ loader' = [loader EXCEPT ![t] = [IdleLoader EXCEPT !.id = loader[t].id]]
    /\ reader' = IF t = "refresh" THEN [reader EXCEPT !.pc = "read"] ELSE reader
    /\ UNCHANGED <<source, jobs_data, clock, events, row, job, request, response>>

\* requests are served once the initial load is done and app.run was reached
Serving == loader["main"].pc = "idle" /\ 1 \in writer.finished

ReadKinds == {"get_jobs", "get_metrics", "get_alerts", "export_jobs"}

\* a request for one of the read handlers arrives
Begin(kind) ==
    /\ Serving
    /\ reader.pc = "idle"
    /\ reader' = [IdleReader EXCEPT !.pc = "read", !.kind = kind]
    /\ request' = Some([kind |-> kind, args |-> NoArgs])
    /\ response' = None
    /\ UNCHANGED <<source, jobs_data, last_updated, clock, loader, events,
                   writer, row, job>>

\* POST /api/jobs/refresh arrives: refresh_data calls load_jobs_from_excel
BeginRefresh ==
    /\ Serving
    /\ reader.pc = "idle"
    /\ writer.started < MaxLoads
    /\ reader' = [IdleReader EXCEPT !.pc = "call", !.kind = "refresh_data"]
    /\ loader' = [loader EXCEPT !["refresh"] =
                     [IdleLoader EXCEPT !.pc = "l59", !.id = writer.started + 1]]
    /\ writer' = [writer EXCEPT !.started = @ + 1]
    /\ request' = Some([kind |-> "refresh_data", args |-> NoArgs])
    /\ response' = None
    /\ UNCHANGED <<source, jobs_data, last_updated, clock, events, row, job>>

HasLastUpdated(kind) == kind \in {"get_jobs", "get_metrics", "refresh_data"}

\* the handler evaluates the global name jobs_data once more; get_alerts and
\* export_jobs answer after their last read
ReadJobs ==
    /\ reader.pc = "read"
    /\ LET obs == Append(reader.obs, jobs_data)
           last == Len(obs) = Reads(reader.kind)
           done == last /\ ~HasLastUpdated(reader.kind)
       IN  /\ reader' = [reader EXCEPT
                            !.obs = obs,
                            !.by = Append(@, writer.jobs),
                            !.early = @ \/ writer.jobs \notin writer.finished,
                            !.pc = IF done THEN "idle" ELSE IF last THEN "lu" ELSE "read"]
           /\ response' = IF done
                          THEN Some(respond(reader.kind, Val(request).args, obs,
                                            None, clock))
                          ELSE response
    /\ UNCHANGED <<source, jobs_data, last_updated, clock, loader, events,
                   writer, row, job, request>>

\* the handler evaluates the global name last_updated and answers
ReadUpdated ==
    /\ reader.pc = "lu"
    /\ reader' = [reader EXCEPT !.pc = "idle", !.luBy = writer.updated]
    /\ response' = Some(respond(reader.kind, Val(request).args, reader.obs,
                                last_updated, clock))
    /\ UNCHANGED <<source, jobs_data, last_updated, clock, loader, events,
                   writer, row, job, request>>

Next ==
    \/ Tick
    \/ Modify
    \/ on_modified
    \/ \E t \in Loaders : CheckExists(t)
    \/ \E t \in Loaders : ReadAndBuild(t)
    \/ \E t \in Loaders : SetEmpty(t)
    \/ \E t \in Loaders : Publish(t)
    \/ \E t \in Loaders : Stamp(t)
    \/ \E kind \in ReadKinds : Begin(kind)
    \/ BeginRefresh
    \/ ReadJobs
    \/ ReadUpdated

Spec == Init /\ [][Next]_vars

----------------------------------------------------------------------------
(* Properties of the derived fields, under SpecBuild *)

Built == job # None
StartOf == Val(job).startTimeParsed
EndOf == Val(job).endTimeParsed
Elapsed == Val(EndOf) - Val(StartOf)

----------------------------------------------------------------------------
(* Properties of the handlers, under SpecSeq *)

Served(kind) == response # None /\ request # None /\ Val(request).kind = kind
Args == Val(request).args
Resp == Val(response)

FilterOn(arg, all) == arg # None /\ Val(arg) # all

\* a job passes the filters of the request: each active filter accepts it
Passes(args, j) ==
    /\ (args.search # None =>
            \/ contains(lower(Val(args.search)), lower(j.jobName))
            \/ contains(lower(Val(args.search)), lower(j.dependency))
            \/ (j.description # <<>>
                /\ contains(lower(Val(args.search)), lower(j.description))))
    /\ (FilterOn(args.status, "all") => j.status = Val(args.status))
    /\ (FilterOn(args.priority, ALL) => j.priority = Val(args.priority))

Passing(args, jobs) == { i \in 1..Len(jobs) : Passes(args, jobs[i]) }

\* C5: totalCount of a job listing is the number of jobs of the collection
\* that pass the search, status and priority filters together, whatever the
\* page and page size requested.
C5_TotalCountIsFilteredCount ==
    Served("get_jobs") =>
        Resp.totalCount = Cardinality(Passing(Args, jobs_data))

C5_Witness ==
    /\ Served("get_jobs")
    /\ Args.search # None /\ FilterOn(Args.status, "all") /\ FilterOn(Args.priority, ALL)
    /\ Args.page = 2
    /\ Resp.totalCount = 2
    /\ Len(jobs_data) = 3

LastPage(total, size) == (total + size - 1) \div size

\* C6: a listing request for a page outside 1..ceil(totalCount/pageSize),
\* beyond the last page, zero or negative, returns an empty page.
C6_OutOfRangePageIsEmpty ==
    Served("get_jobs") /\ Args.page \notin 1..LastPage(Resp.totalCount, Args.page_size)
        => Resp.jobs = <<>>

IndicesWhere(jobs, Test(_)) == { i \in 1..Len(jobs) : Test(jobs[i]) }

\* the names of the jobs at the indices of S, in collection order
NamesAt(jobs, S) ==
    LET F[i \in 0..Len(jobs)] ==
            IF i = 0 THEN <<>>
            ELSE IF i \in S THEN Append(F[i - 1], jobs[i].jobName)
            ELSE F[i - 1]
    IN  F[Len(jobs)]

DelayedIdx == LET T(j) == j.status = "delayed" IN IndicesWhere(jobs_data, T)
FailedIdx == LET T(j) == j.status = "failed" IN IndicesWhere(jobs_data, T)
LongIdx == LET T(j) == /\ j.status = "running"
                       /\ clock - Val(j.startTimeParsed) > 10800
           IN  IndicesWhere(jobs_data, T)

Bit(b) == IF b THEN 1 ELSE 0

CompletedIdx ==
    LET T(j) == /\ j.status = "completed"
                /\ j.startTimeParsed # None /\ j.endTimeParsed # None
    IN  IndicesWhere(jobs_data, T)

RECURSIVE SecondsOver(_)
SecondsOver(S) ==
    IF S = {} THEN 0
    ELSE LET i == CHOOSE k \in S : TRUE
         IN  Val(jobs_data[i].endTimeParsed) - Val(jobs_data[i].startTimeParsed)
             + SecondsOver(S \ {i})

\* a is the quotient total / (60 * n) with its fraction dropped
IsTruncatedMinutes(a, total, n) ==
    /\ (total >= 0 => a * 60 * n <= total /\ total < (a + 1) * 60 * n)
    /\ (total < 0 => (a - 1) * 60 * n < total /\ total <= a * 60 * n)

\* C8: avgRunTimeMinutes is the average of end - start in minutes, truncated
\* to an integer, over the completed jobs with both timestamps, and the
\* number 0 when there is none; the status and priority counts are taken
\* over the whole collection.
C8_AverageAndCounts ==
    Served("get_metrics") =>
        /\ (CompletedIdx = {} => Resp.avgRunTimeMinutes = 0)
        /\ (CompletedIdx # {} =>
                IsTruncatedMinutes(Resp.avgRunTimeMinutes,
                                   SecondsOver(CompletedIdx),
                                   Cardinality(CompletedIdx)))
        /\ Resp.total = Len(jobs_data)
        /\ \A st \in {"completed", "running", "failed", "delayed"} :
               Resp[st] = Cardinality({ i \in 1..Len(jobs_data) : jobs_data[i].status = st })
        /\ Resp.completed + Resp.running + Resp.failed + Resp.delayed = Resp.total
        /\ Resp.priorityDistribution.high =
               Cardinality({ i \in 1..Len(jobs_data) : jobs_data[i].priority = HIGH })
        /\ Resp.priorityDistribution.normal =
               Cardinality({ i \in 1..Len(jobs_data) : jobs_data[i].priority = NORMAL })
        /\ Resp.priorityDistribution.low =
               Cardinality({ i \in 1..Len(jobs_data) : jobs_data[i].priority = LOW })

C8_Witness ==
    /\ Served("get_metrics")
    /\ Cardinality(CompletedIdx) = 2
    /\ SecondsOver(CompletedIdx) = -7198
    /\ Resp.avgRunTimeMinutes = -59
    /\ Resp.total = 3

Unparsable(cell) == cell # None /\ FormatOf(Val(cell)) = "unparsable"

Loaded == last_updated # None

\* C9: a row whose timestamp cell cannot be parsed gets that field absent,
\* and the load still publishes one job for every row of the sheet, in row
\* order; it neither aborts nor empties the collection.
C9_BadRowDoesNotAbortLoad ==
    Loaded /\ source.kind = "sheet" =>
        /\ Len(jobs_data) = Len(source.rows)
        /\ \A i \in 1..Len(source.rows) :
               LET r == source.rows[i]
                   j == jobs_data[i]
               IN  /\ j.id = <<r.jobName, i - 1, Val(last_updated)>>
                   /\ (Unparsable(r.startTime) =>
                           j.startTimeParsed = None /\ j.status = "failed")
                   /\ (Unparsable(r.endTime) => j.endTimeParsed = None)
                   /\ (notna(r.startTime) /\ ~Unparsable(r.startTime) =>
                           j.startTimeParsed = Some(SecondsOf(Val(r.startTime))))

C9_Witness ==
    /\ Loaded /\ source.kind = "sheet"
    /\ Len(source.rows) = 3
    /\ Unparsable(source.rows[2].startTime)
    /\ ~Unparsable(source.rows[1].startTime) /\ ~Unparsable(source.rows[1].endTime)
    /\ ~Unparsable(source.rows[3].startTime) /\ ~Unparsable(source.rows[3].endTime)
    /\ Len(jobs_data) = 3
    /\ jobs_data[2].status = "failed"
    /\ jobs_data[1].status = "completed"

----------------------------------------------------------------------------
(* Properties of the running server, under Spec *)

Answered(kind) == reader.pc = "idle" /\ Served(kind)

\* the response the request would get from the single collection c
FromOne(c) ==
    LET kind == Val(request).kind
        obs == [i \in 1..Reads(kind) |-> c]
    IN  CASE kind = "get_jobs" -> get_jobs(Args, obs, Resp.lastUpdated)
          [] kind = "get_metrics" -> get_metrics(obs, Resp.lastUpdated)
          [] kind = "get_alerts" -> get_alerts(obs, Resp.timestamp)
          [] kind = "export_jobs" -> export_jobs(Args, obs)

\* C1: the response of a read handler that ran beside loads is what one
\* single collection, among those jobs_data held while it ran, gives: never
\* values taken partly from one collection and partly from another.
C1_ResponseFromOneCollection ==
    \A kind \in ReadKinds :
        Answered(kind) =>
            \E i \in 1..Len(reader.obs) : Resp = FromOne(reader.obs[i])

LoaderPcs == {"idle", "l59", "l61", "l62", "l65", "l80", "l81", "l86", "l87"}

\* what the step of loader t, if it is one, must have done
ReloadStep(t) ==
    LET a == loader[t]
        b == loader'[t]
    IN  /\ b.pc \in LoaderPcs
        /\ (a.pc = "l59" /\ b.pc # "l59" /\ ~exists(source) => b.pc = "l61")
        /\ (a.pc = "l65" /\ b.pc # "l65" /\ source.kind # "sheet" => b.pc = "l86")
        /\ (a.pc \in {"l61", "l86"} /\ b.pc # a.pc =>
                jobs_data' = <<>> /\ b.pc \in {"l62", "l87"})
        /\ (a.pc \in {"l62", "l81", "l87"} /\ b.pc # a.pc =>
                /\ last_updated' = Some(clock)
                /\ b.pc = "idle"
                /\ a.id \in writer'.finished)
        /\ (a.pc = "l65" /\ b.pc # "l65" /\ source.kind = "sheet" =>
                b.pc = "l80" /\ b.df = source.rows)
        /\ (a.pc = "l80" /\ b.pc # "l80" =>
                /\ b.pc = "l81"
                /\ Len(jobs_data') = Len(a.df)
                /\ \A i \in 1..Len(a.df) :
                       /\ jobs_data'[i].id[1] = a.df[i].jobName
                       /\ jobs_data'[i].id[2] = i - 1
                       /\ jobs_data'[i].startTimeParsed =
                              (IF a.df[i].startTime = None THEN None
                               ELSE parse_datetime(Val(a.df[i].startTime))))

\* C2: a load never fails outward.  With the file missing, or the read
\* raising, it sets the collection to empty, sets last_updated to the time
\* of the attempt and returns; with the read succeeding it sets the
\* collection to one job per row in row order, then last_updated.
C2_ReloadNeverFails == [][\A t \in Loaders : ReloadStep(t)]_vars

C2_Witness ==
    \E t \in Loaders :
        /\ loader[t].pc = "l87"
        /\ source.kind = "unreadable"
        /\ jobs_data = <<>>
        /\ writer.jobs = loader[t].id

\* C10: the collection and the lastUpdated a handler answers with were both
\* assigned by one and the same load, and that load had finished when the
\* handler read them.
C10_PairFromOneCompletedLoad ==
    \A kind \in {"get_jobs", "refresh_data"} :
        Answered(kind) =>
            /\ \A i \in 1..Len(reader.by) : reader.by[i] = reader.luBy
            /\ ~reader.early

----------------------------------------------------------------------------
(* Properties of the priority default, under SpecBuild *)

\* a priority cell with nothing in it: no value, or only whitespace
BlankCell(cell) == cell = None \/ \A i \in 1..Len(Val(cell)) : IsSpace(Val(cell)[i])

\* C11: a row whose priority cell is blank (absent, empty or whitespace
\* only) gives a job of priority "normal"; no job is built with the empty
\* string as its priority.
C11_BlankPriorityIsNormal ==
    Built =>
        /\ (BlankCell(Val(row).priority) => Val(job).priority = NORMAL)
        /\ Val(job).priority # <<>>

----------------------------------------------------------------------------
(* Properties of overlapping loads, under Spec *)

AllLoadsReturned == \A t \in Loaders : loader[t].pc = "idle"

\* a collection without the ids of its jobs, which embed the time of the load
Fields(jobs) ==
    [i \in 1..Len(jobs) |->
        [jobName |-> jobs[i].jobName, startTime |-> jobs[i].startTime,
         endTime |-> jobs[i].endTime, dependency |-> jobs[i].dependency,
         description |-> jobs[i].description, priority |-> jobs[i].priority,
         status |-> jobs[i].status, duration |-> jobs[i].duration]]

\* C12: once all the loads that were started have returned, the published
\* collection is the one built from the spreadsheet contents that were read
\* last: a load that read older contents does not overwrite what a load
\* that read newer contents published.
C12_LatestReadIsPublished ==
    AllLoadsReturned /\ writer.finished # {} =>
        Fields(jobs_data) = Fields(load_jobs_from_excel(writer.read, clock))

====
